---- MODULE Spec2Model ----
(***************************************************************************)
(* Model of src/app.py: a Streamlit script that loads a pickled regression *)
(* model and four label encoders, renders a form and, on submission,       *)
(* computes a salary estimate, a city comparison, market insights and a    *)
(* text report.  One behaviour is a sequence of script runs (Streamlit     *)
(* re-executes the whole script on every interaction); the only state      *)
(* that survives a run is the st.cache_resource cache of load_data.        *)
(*                                                                         *)
(* Numbers are exact rationals <<numerator, denominator>> (denominator     *)
(* positive, lowest terms).  The division of line 335 is a numpy float64   *)
(* division, which does not raise on a zero divisor: it yields nan, inf    *)
(* or -inf, modelled by the "kind" of a float record.                      *)
(***************************************************************************)
EXTENDS Integers, Sequences, FiniteSets

\* ---------------------------------------------------------------- bounds
MaxCities == 4
Intercepts == {-12, 0, 36}
JobCoefs == {6}
CityCoefs == {-6, 0, 12}
Rates == {0, 1, 300}

\* ------------------------------------------------------ program constants
MinNumCities == 3
MaxNumCities == 8

\* ------------------------------------------------------------- rationals
Abs(x) == IF x < 0 THEN -x ELSE x

Min(a, b) == IF a < b THEN a ELSE b

RECURSIVE GCD(_, _)
GCD(a, b) == IF b = 0 THEN a ELSE GCD(b, a % b)

Norm(n, d) ==
    LET s == IF d < 0 THEN -1 ELSE 1
        g == GCD(Abs(n), Abs(d))
    IN  <<(s * n) \div g, (s * d) \div g>>

Rat(n) == <<n, 1>>

RAdd(a, b) == Norm(a[1] * b[2] + b[1] * a[2], a[2] * b[2])

RSub(a, b) == Norm(a[1] * b[2] - b[1] * a[2], a[2] * b[2])

RMul(a, b) == Norm(a[1] * b[1], a[2] * b[2])

\* b is not zero
RDiv(a, b) == Norm(a[1] * b[2], a[2] * b[1])

RGeq(a, b) == a[1] * b[2] >= b[1] * a[2]

RIsZero(a) == a[1] = 0

\* a float64 value: a finite number, or one of the IEEE specials
Num(r) == [kind |-> "num", val |-> r]

Special(k) == [kind |-> k, val |-> Rat(0)]

\* numpy float64 division a / b of two finite values
FloatDiv(a, b) ==
    IF ~RIsZero(b) THEN Num(RDiv(a, b))
    ELSE IF RIsZero(a) THEN Special("nan")
    ELSE IF a[1] > 0 THEN Special("inf")
    ELSE Special("-inf")

\* float * finite number
FloatMul(f, r) == IF f.kind = "num" THEN Num(RMul(f.val, r)) ELSE f

\* ----------------------------------------------------------- label names
\* A category name is a sequence of character codes; Python compares
\* strings lexicographically by code point.
RECURSIVE StrLess(_, _)
StrLess(a, b) ==
    IF Len(b) = 0 THEN FALSE
    ELSE IF Len(a) = 0 THEN TRUE
    ELSE IF Head(a) # Head(b) THEN Head(a) < Head(b)
    ELSE StrLess(Tail(a), Tail(b))

\* the i-th city name of the universe, in ascending order
CityName(i) == <<(i + 1) \div 2>> \o (IF i % 2 = 0 THEN <<1>> ELSE <<>>)

\* encoders.pickle for a label set of n cities: LabelEncoder.classes_ is
\* sorted and free of duplicates
Encoders(n) ==
    [ok |-> TRUE,
     le_job |-> <<<<1>>, <<2>>>>,
     le_exp |-> <<<<1>>>>,
     le_ind |-> <<<<1>>>>,
     le_city |-> [i \in 1..n |-> CityName(i)]]

NoneModel == [ok |-> FALSE, intercept |-> 0, jobCoef |-> 0, cityCoef |-> 0]

NoneEncoders ==
    [ok |-> FALSE, le_job |-> <<>>, le_exp |-> <<>>, le_ind |-> <<>>,
     le_city |-> <<>>]

\* LabelEncoder.transform([c])[0]: the 0-based position of c in classes_
Transform(classes, c) == (CHOOSE i \in 1..Len(classes) : classes[i] = c) - 1

\* model.predict([[job, exp, ind, city]])[0] of a linear regression
Predict(m, vec) == Rat(m.intercept + m.jobCoef * vec[1] + m.cityCoef * vec[4])

\* ------------------------------------------------ the script's functions
\* load_data() without the handler of the missing encoders file
load_data_NoEncodersCheck(mf, ef, pm, pe) ==
    IF ~mf THEN [model |-> NoneModel, encoders |-> NoneEncoders,
                 shown |-> {"ModelFileNotFound"}]
    ELSE [model |-> pm, encoders |-> pe, shown |-> {}]

\* load_data(): both files present gives the unpickled pair; a missing
\* file gives (None, None) and an st.error message
load_data(mf, ef, pm, pe) ==
    IF ~mf THEN [model |-> NoneModel, encoders |-> NoneEncoders,
                 shown |-> {"ModelFileNotFound"}]
    ELSE IF ~ef THEN [model |-> NoneModel, encoders |-> NoneEncoders,
                      shown |-> {"EncodersFileNotFound"}]
    ELSE [model |-> pm, encoders |-> pe, shown |-> {}]

\* line 36: if model and encoders
ArtifactsLoaded(m, e) == m.ok /\ e.ok

\* FinalSalary that ignores the annual flag
FinalSalary_AlwaysMonthly(raw, annual, rate) == RMul(raw, Rat(rate))

\* lines 225-228: raw prediction to monthly salary in LKR
FinalSalary(raw, annual, rate) ==
    LET adjusted_salary ==
            IF annual THEN RDiv(raw, Rat(12)) ELSE raw
    IN  RMul(adjusted_salary, Rat(rate))

\* line 229
AnnualSalary(final) == RMul(final, Rat(12))

\* line 253
DailyRate(final) == RDiv(final, Rat(22))

\* LoopSalary that converts the currency before testing the flag and
\* then forgets the division
LoopSalary_NoDivision(pred, annual, rate) == RMul(pred, Rat(rate))

\* lines 292-294: the same adjustment, written again in the loop
LoopSalary(pred, annual, rate) ==
    LET p == IF annual THEN RDiv(pred, Rat(12)) ELSE pred
    IN  RMul(p, Rat(rate))

\* OtherCities that keeps the selected city among the candidates
OtherCities_KeepsSelected(all_cities, c0) == all_cities

\* line 279: [c for c in all_cities if c != city]
OtherCities(all_cities, c0) == SelectSeq(all_cities, LAMBDA c : c # c0)

\* SampleCount that draws num_cities others instead of num_cities - 1
SampleCount_OffByOne(n_cities, n_all) == Min(n_cities, n_all - 1)

\* line 280: min(num_cities - 1, len(all_cities) - 1)
SampleCount(n_cities, n_all) == Min(n_cities - 1, n_all - 1)

\* np.random.choice(a, k, replace=False): any k distinct elements of a,
\* in any order; an empty a is accepted when k = 0
Range(s) == {s[i] : i \in DOMAIN s}

Choices(a, k) ==
    {d \in [1..k -> Range(a)] :
        \A i, j \in 1..k : i # j => d[i] # d[j]}

\* list.sort(): ascending by string comparison
RECURSIVE Insert(_, _)
Insert(sorted, x) ==
    IF sorted = <<>> THEN <<x>>
    ELSE IF StrLess(x, Head(sorted)) THEN <<x>> \o sorted
    ELSE <<Head(sorted)>> \o Insert(Tail(sorted), x)

\* SortCities that leaves the list as drawn
SortCities_Unsorted(s) == s

RECURSIVE SortCities(_)
SortCities(s) ==
    IF s = <<>> THEN <<>>
    ELSE Insert(SortCities(SubSeq(s, 1, Len(s) - 1)), s[Len(s)])

\* lines 286-300: one row per comparison city
ComparisonData(m, enc, cities, c0, jn, en, inn, annual, rate) ==
    [i \in 1..Len(cities) |->
        [City |-> cities[i],
         MonthlySalary |->
            LoopSalary(Predict(m, <<jn, en, inn,
                                    Transform(enc.le_city, cities[i])>>),
                       annual, rate),
         Selected |-> IF cities[i] = c0 THEN "Your City" ELSE "Other"]]

\* PredictCallsInLoop that reuses the primary estimate for the selected city
PredictCallsInLoop_SkipsSelected(cities) == Len(cities) - 1

\* lines 288-290: one model.predict call per comparison city
PredictCallsInLoop(cities) == Len(cities)

RECURSIVE SumSalaries(_)
SumSalaries(df) ==
    IF df = <<>> THEN Rat(0)
    ELSE RAdd(Head(df).MonthlySalary, SumSalaries(Tail(df)))

\* line 334: chart_df["Monthly Salary"].mean()
Mean(df) == RDiv(SumSalaries(df), Rat(Len(df)))

\* line 335: ((final_salary - avg_salary) / avg_salary) * 100
SalaryDiff(final, avg) == FloatMul(FloatDiv(RSub(final, avg), avg), Rat(100))

\* Ranking that counts strictly greater salaries
Ranking_Strict(df, final) ==
    Cardinality({i \in 1..Len(df) :
                    RGeq(df[i].MonthlySalary, final)
                    /\ df[i].MonthlySalary # final})

\* line 347: (chart_df["Monthly Salary"] >= final_salary).sum()
Ranking(df, final) ==
    Cardinality({i \in 1..Len(df) : RGeq(df[i].MonthlySalary, final)})

\* f"{x:+.1f}": a special value prints as nan / inf; a number is rounded
\* to tenths, half to even
Format1(f) ==
    IF f.kind # "num" THEN [text |-> f.kind, tenths |-> 0]
    ELSE LET n == 10 * f.val[1]
             d == f.val[2]
             q == n \div d
             r == n - q * d
             t == IF 2 * r > d THEN q + 1
                  ELSE IF 2 * r = d THEN q + (q % 2)
                  ELSE q
         IN  [text |-> "number", tenths |-> t]

\* ----------------------------------------------------------------- state
VARIABLES
    modelFile, encFile,          \* the two files are present on disk
    pickledModel, pickledEncoders,   \* what the files contain
    cache,                       \* st.cache_resource entry of load_data
    model, encoders,             \* line 34
    pc,                          \* position of the current script run
    shown,                       \* st.error / st.info messages displayed
    exception,                   \* uncaught exception ending the run
    currency_rate, is_annual, show_comparison, num_cities, show_insights,
    job, experience, industry, city, submitted,
    job_num, exp_num, ind_num, city_num,
    raw_prediction, final_salary, annual_salary, daily_rate,
    comparison_cities, chart_df,
    avg_salary, salary_diff, ranking,
    report_text,
    bound,                       \* names bound so far in this run
    predictCalls                 \* model.predict calls made in this run

files == <<modelFile, encFile, pickledModel, pickledEncoders>>

widgets ==
    <<currency_rate, is_annual, show_comparison, num_cities, show_insights,
      job, experience, industry, city, submitted>>

estimate ==
    <<job_num, exp_num, ind_num, city_num, raw_prediction, final_salary,
      annual_salary, daily_rate>>

comparison == <<comparison_cities, chart_df>>

insights == <<avg_salary, salary_diff, ranking>>

vars ==
    <<files, cache, model, encoders, pc, shown, exception, widgets,
      estimate, comparison, insights, report_text, bound, predictCalls>>

NoReport ==
    [monthly |-> Rat(0), annual |-> Rat(0), daily |-> Rat(0),
     average |-> Rat(0), difference |-> Format1(Num(Rat(0))),
     ranking |-> 0, of |-> 0, rows |-> <<>>, rate |-> 0]

\* the namespace of a script run that has not executed anything yet
FreshRun ==
    /\ model = NoneModel
    /\ encoders = NoneEncoders
    /\ pc = "start"
    /\ shown = {}
    /\ exception = "none"
    /\ currency_rate = 300
    /\ is_annual = TRUE
    /\ show_comparison = TRUE
    /\ num_cities = 5
    /\ show_insights = TRUE
    /\ job = <<>>
    /\ experience = <<>>
    /\ industry = <<>>
    /\ city = <<>>
    /\ submitted = FALSE
    /\ job_num = 0
    /\ exp_num = 0
    /\ ind_num = 0
    /\ city_num = 0
    /\ raw_prediction = Rat(0)
    /\ final_salary = Rat(0)
    /\ annual_salary = Rat(0)
    /\ daily_rate = Rat(0)
    /\ comparison_cities = <<>>
    /\ chart_df = <<>>
    /\ avg_salary = Rat(0)
    /\ salary_diff = Num(Rat(0))
    /\ ranking = 0
    /\ report_text = NoReport
    /\ bound = {}
    /\ predictCalls = 0

Init ==
    /\ modelFile \in BOOLEAN
    /\ encFile \in BOOLEAN
    /\ pickledModel \in [ok : {TRUE}, intercept : Intercepts,
                          jobCoef : JobCoefs, cityCoef : CityCoefs]
    /\ pickledEncoders \in {Encoders(n) : n \in 1..MaxCities}
    /\ cache = [set |-> FALSE, value |-> load_data(FALSE, FALSE,
                                                   NoneModel, NoneEncoders)]
    /\ FreshRun

\* ---------------------------------------------------------------- actions
\* lines 11-34: load_data() behind st.cache_resource
LoadData ==
    /\ pc = "start"
    /\ LET r == IF cache.set THEN cache.value
                ELSE load_data(modelFile, encFile, pickledModel,
                               pickledEncoders)
       IN  /\ cache' = [set |-> TRUE, value |-> r]
           /\ model' = r.model
           /\ encoders' = r.encoders
           /\ shown' = shown \cup r.shown
    /\ pc' = "loaded"
    /\ UNCHANGED <<files, exception, widgets, estimate, comparison,
                   insights, report_text, bound, predictCalls>>

\* lines 454-456: the else branch of line 36
StartupError ==
    /\ pc = "loaded"
    /\ ~ArtifactsLoaded(model, encoders)
    /\ shown' = shown \cup {"ApplicationCannotStart", "RequiredFiles"}
    /\ pc' = "halted"
    /\ UNCHANGED <<files, cache, model, encoders, exception, widgets,
                   estimate, comparison, insights, report_text, bound,
                   predictCalls>>

\* lines 37-208: sidebar widgets and the form; the values are the user's
RenderPage ==
    /\ pc = "loaded"
    /\ ArtifactsLoaded(model, encoders)
    /\ currency_rate' \in Rates
    /\ is_annual' \in BOOLEAN
    /\ show_comparison' \in BOOLEAN
    /\ num_cities' \in MinNumCities..MaxNumCities
    /\ show_insights' \in BOOLEAN
    /\ job' \in Range(encoders.le_job)
    /\ experience' \in Range(encoders.le_exp)
    /\ industry' \in Range(encoders.le_ind)
    /\ city' \in Range(encoders.le_city)
    /\ submitted' \in BOOLEAN
    /\ pc' = IF submitted' THEN "submitted" ELSE "idle"
    /\ UNCHANGED <<files, cache, model, encoders, shown, exception,
                   estimate, comparison, insights, report_text, bound,
                   predictCalls>>

\* lines 211-268: the primary estimate
PredictSalary ==
    /\ pc = "submitted"
    /\ job_num' = Transform(encoders.le_job, job)
    /\ exp_num' = Transform(encoders.le_exp, experience)
    /\ ind_num' = Transform(encoders.le_ind, industry)
    /\ city_num' = Transform(encoders.le_city, city)
    /\ raw_prediction' =
            Predict(model, <<job_num', exp_num', ind_num', city_num'>>)
    /\ predictCalls' = predictCalls + 1
    /\ final_salary' = FinalSalary(raw_prediction', is_annual, currency_rate)
    /\ annual_salary' = AnnualSalary(final_salary')
    /\ daily_rate' = DailyRate(final_salary')
    /\ pc' = "predicted"
    /\ UNCHANGED <<files, cache, model, encoders, shown, exception, widgets,
                   comparison, insights, report_text, bound>>

\* lines 271-326 with show_comparison set
ComparisonChart ==
    /\ pc = "predicted"
    /\ show_comparison
    /\ LET all_cities == encoders.le_city
       IN  \E drawn \in Choices(OtherCities(all_cities, city),
                                 SampleCount(num_cities, Len(all_cities))) :
             /\ comparison_cities' = SortCities(drawn \o <<city>>)
             /\ chart_df' =
                    ComparisonData(model, encoders, comparison_cities', city,
                                   job_num, exp_num, ind_num, is_annual,
                                   currency_rate)
             /\ predictCalls' =
                    predictCalls + PredictCallsInLoop(comparison_cities')
    /\ bound' = bound \cup {"comparison_cities", "chart_df"}
    /\ pc' = "compared"
    /\ UNCHANGED <<files, cache, model, encoders, shown, exception, widgets,
                   estimate, insights, report_text>>

\* line 271 with show_comparison cleared: the block is skipped
SkipComparison ==
    /\ pc = "predicted"
    /\ ~show_comparison
    /\ pc' = "compared"
    /\ UNCHANGED <<files, cache, model, encoders, shown, exception, widgets,
                   estimate, comparison, insights, report_text, bound,
                   predictCalls>>

\* lines 329-352 with show_insights set and chart_df bound
MarketInsights ==
    /\ pc = "compared"
    /\ show_insights
    /\ "chart_df" \in bound
    /\ avg_salary' = Mean(chart_df)
    /\ salary_diff' = SalaryDiff(final_salary, avg_salary')
    /\ ranking' = Ranking(chart_df, final_salary)
    /\ bound' = bound \cup {"avg_salary", "salary_diff", "ranking"}
    /\ pc' = "insights"
    /\ UNCHANGED <<files, cache, model, encoders, shown, exception, widgets,
                   estimate, comparison, report_text, predictCalls>>

\* line 334 when the comparison block did not run: chart_df is not defined
MarketInsightsNameError ==
    /\ pc = "compared"
    /\ show_insights
    /\ "chart_df" \notin bound
    /\ exception' = "NameError"
    /\ pc' = "crashed"
    /\ UNCHANGED <<files, cache, model, encoders, shown, widgets, estimate,
                   comparison, insights, report_text, bound, predictCalls>>

\* line 329 with show_insights cleared: the block is skipped
SkipInsights ==
    /\ pc = "compared"
    /\ ~show_insights
    /\ pc' = "insights"
    /\ UNCHANGED <<files, cache, model, encoders, shown, exception, widgets,
                   estimate, comparison, insights, report_text, bound,
                   predictCalls>>

\* the names the report reads, lines 356-384
ReportReads ==
    {"avg_salary", "salary_diff", "ranking", "comparison_cities", "chart_df"}

\* lines 356-406: the report text and the download button
DownloadReport ==
    /\ pc = "insights"
    /\ ReportReads \subseteq bound
    /\ report_text' =
            [monthly |-> final_salary, annual |-> annual_salary,
             daily |-> daily_rate, average |-> avg_salary,
             difference |-> Format1(salary_diff), ranking |-> ranking,
             of |-> Len(comparison_cities),
             rows |-> [i \in 1..Len(chart_df) |->
                          <<chart_df[i].City, chart_df[i].MonthlySalary>>],
             rate |-> currency_rate]
    /\ bound' = bound \cup {"report_text"}
    /\ pc' = "done"
    /\ UNCHANGED <<files, cache, model, encoders, shown, exception, widgets,
                   estimate, comparison, insights, predictCalls>>

\* line 356 when a name the f-string reads was never assigned
DownloadReportNameError ==
    /\ pc = "insights"
    /\ ~(ReportReads \subseteq bound)
    /\ exception' = "NameError"
    /\ pc' = "crashed"
    /\ UNCHANGED <<files, cache, model, encoders, shown, widgets, estimate,
                   comparison, insights, report_text, bound, predictCalls>>

\* Streamlit executes the script again from the top on the next
\* interaction; only the resource cache survives
Rerun ==
    /\ pc \in {"idle", "done", "crashed", "halted"}
    /\ model' = NoneModel
    /\ encoders' = NoneEncoders
    /\ pc' = "start"
    /\ shown' = {}
    /\ exception' = "none"
    /\ currency_rate' = 300
    /\ is_annual' = TRUE
    /\ show_comparison' = TRUE
    /\ num_cities' = 5
    /\ show_insights' = TRUE
    /\ job' = <<>>
    /\ experience' = <<>>
    /\ industry' = <<>>
    /\ city' = <<>>
    /\ submitted' = FALSE
    /\ job_num' = 0
    /\ exp_num' = 0
    /\ ind_num' = 0
    /\ city_num' = 0
    /\ raw_prediction' = Rat(0)
    /\ final_salary' = Rat(0)
    /\ annual_salary' = Rat(0)
    /\ daily_rate' = Rat(0)
    /\ comparison_cities' = <<>>
    /\ chart_df' = <<>>
    /\ avg_salary' = Rat(0)
    /\ salary_diff' = Num(Rat(0))
    /\ ranking' = 0
    /\ report_text' = NoReport
    /\ bound' = {}
    /\ predictCalls' = 0
    /\ UNCHANGED <<files, cache>>

Next ==
    \/ LoadData
    \/ StartupError
    \/ RenderPage
    \/ PredictSalary
    \/ ComparisonChart
    \/ SkipComparison
    \/ MarketInsights
    \/ MarketInsightsNameError
    \/ SkipInsights
    \/ DownloadReport
    \/ DownloadReportNameError
    \/ Rerun

Spec == Init /\ [][Next]_vars

\* ------------------------------------------------------------ properties
\* positions of a run that are inside the "if model and encoders" branch
FormPath ==
    {"idle", "submitted", "predicted", "compared", "insights", "done",
     "crashed"}

ArtifactMissing == ~modelFile \/ ~encFile

\* C1: when the model file or the encoders file is absent, no run ever
\* calls the predictor, every run that has passed load_data shows an error
\* message, and the form path is entered only with both artifacts loaded.
C1_NoPredictionWithoutArtifacts ==
    /\ ArtifactMissing =>
          /\ predictCalls = 0
          /\ pc \notin FormPath
          /\ pc # "start" => shown # {}
          /\ pc = "halted" => "ApplicationCannotStart" \in shown
    /\ pc \in FormPath => model.ok /\ encoders.ok

C1_Witness ==
    /\ modelFile
    /\ ~encFile
    /\ pc = "halted"
    /\ cache.set
    /\ "EncodersFileNotFound" \in shown

SelectedRows == {i \in 1..Len(chart_df) : chart_df[i].City = city}

MarkedRows == {i \in 1..Len(chart_df) : chart_df[i].Selected = "Your City"}

\* C2: the comparison holds the selected city exactly once, that row is
\* the only one marked "Your City", and no city name occurs twice.
C2_SelectedCityExactlyOnce ==
    "chart_df" \in bound =>
        /\ Cardinality(SelectedRows) = 1
        /\ MarkedRows = SelectedRows
        /\ \A i, j \in 1..Len(chart_df) :
              i # j => chart_df[i].City # chart_df[j].City

C2_Witness ==
    /\ "chart_df" \in bound
    /\ Len(chart_df) = 3
    /\ Len(encoders.le_city) = 4
    /\ chart_df[2].Selected = "Your City"
    /\ chart_df[1].Selected = "Other"
    /\ chart_df[3].Selected = "Other"

\* C3: for num_cities in 3..8 the comparison has exactly
\* min(num_cities, number of known cities) rows and the draw raises no
\* error (np.random.choice has a sample to return); with 2 known cities
\* and num_cities = 5 it has 2 rows.
C3_ComparisonSizeClamped ==
    /\ "chart_df" \in bound =>
          /\ Len(chart_df) = Min(num_cities, Len(encoders.le_city))
          /\ Len(comparison_cities) = Len(chart_df)
    /\ pc = "predicted" /\ show_comparison =>
          /\ SampleCount(num_cities, Len(encoders.le_city))
                <= Len(OtherCities(encoders.le_city, city))
          /\ Choices(OtherCities(encoders.le_city, city),
                     SampleCount(num_cities, Len(encoders.le_city))) # {}

C3_Witness ==
    /\ "chart_df" \in bound
    /\ Len(encoders.le_city) = 2
    /\ num_cities = 5
    /\ Len(chart_df) = 2
    /\ exception = "none"

\* C4: whenever the insights are computed, 1 <= ranking <= number of
\* comparison rows.
C4_RankBounds ==
    "ranking" \in bound => 1 <= ranking /\ ranking <= Len(chart_df)

C4_Witness ==
    /\ "ranking" \in bound
    /\ ranking = 1
    /\ Len(chart_df) = 3
    /\ \E i \in 1..Len(chart_df) : chart_df[i].MonthlySalary # final_salary

\* C5: when the average monthly salary of the comparison is 0, the percent
\* difference is guarded and no nan or inf is written into the report.
C5_NoNanOrInfInReport ==
    "report_text" \in bound /\ RIsZero(report_text.average) =>
        report_text.difference.text = "number"

\* C6: the comparison rows, as produced and as written to the report, are
\* strictly ascending by city name.
C6_StrictlySortedByCity ==
    /\ "chart_df" \in bound =>
          \A i \in 1..(Len(chart_df) - 1) :
              StrLess(chart_df[i].City, chart_df[i + 1].City)
    /\ "report_text" \in bound =>
          \A i \in 1..(Len(report_text.rows) - 1) :
              StrLess(report_text.rows[i][1], report_text.rows[i + 1][1])

C6_Witness ==
    /\ "report_text" \in bound
    /\ Len(report_text.rows) = 4
    /\ city = report_text.rows[3][1]

Estimated == pc \in {"predicted", "compared", "insights", "done", "crashed"}

\* C7: the monthly figure is (raw / 12) * rate when the annual flag is set
\* and raw * rate otherwise, and the annual figure is monthly * 12.
C7_PeriodAdjustment ==
    Estimated =>
        /\ is_annual =>
              final_salary = Norm(raw_prediction[1] * currency_rate,
                                  raw_prediction[2] * 12)
        /\ ~is_annual =>
              final_salary = Norm(raw_prediction[1] * currency_rate,
                                  raw_prediction[2])
        /\ annual_salary = Norm(final_salary[1] * 12, final_salary[2])

\* the example of the specification, in thousands of thousands: raw 36
\* annual at rate 1 gives monthly 3 and annual 36
C7_Witness ==
    /\ Estimated
    /\ is_annual
    /\ currency_rate = 1
    /\ raw_prediction = Rat(36)
    /\ final_salary = Rat(3)
    /\ annual_salary = Rat(36)

Compared ==
    /\ pc \in {"compared", "insights", "done", "crashed"}
    /\ show_comparison

\* C8 as claimed: a submission with the comparison enabled calls the
\* predictor min(num_cities, number of known cities) times in total.
C8_PredictCallsAsClaimed ==
    Compared => predictCalls = Min(num_cities, Len(encoders.le_city))

\* C8 as amended: a submission with the comparison enabled calls the
\* predictor min(num_cities, number of known cities) + 1 times: once for
\* the primary estimate and once for every comparison row, the selected
\* city's row included.
C8_PredictCallsAmended ==
    Compared => predictCalls = Min(num_cities, Len(encoders.le_city)) + 1

C8_Witness ==
    /\ Compared
    /\ pc = "done"
    /\ num_cities = 3
    /\ Len(encoders.le_city) = 4
    /\ predictCalls = 4

\* C9: for every combination of show_comparison and show_insights a
\* submission runs to completion: no run ends in an error for a name that
\* was never assigned.
C9_EverySubmissionCompletes == exception = "none" /\ pc # "crashed"

\* C10: the row marked as the selected city carries the primary estimate's
\* monthly salary.
C10_SelectedRowEqualsPrimary ==
    "chart_df" \in bound =>
        \A i \in MarkedRows : chart_df[i].MonthlySalary = final_salary

C10_Witness ==
    /\ "chart_df" \in bound
    /\ is_annual
    /\ ~RIsZero(final_salary)
    /\ final_salary[2] # 1
    /\ \E i \in MarkedRows : chart_df[i].MonthlySalary = final_salary
    /\ \E i \in 1..Len(chart_df) : chart_df[i].MonthlySalary # final_salary
====
